---- MODULE Spec2Model ----
(***************************************************************************)
(* Model of px4_offboard/offboard_smooth.py: the OffboardMission node.     *)
(*                                                                         *)
(* The node has three callbacks, run one at a time by the rclpy executor:  *)
(*   vehicle_status_callback   stores the reported navigation state,       *)
(*   local_position_callback   stores the reported position and velocity,  *)
(*   cmdloop_callback          the 20 ms timer tick: command sequencer,    *)
(*                             offboard-control-mode heartbeat and the     *)
(*                             two-phase waypoint state machine.           *)
(*                                                                         *)
(* Numbers.  Lengths are integers in units of the reach radius (0.1 m).    *)
(* theta is kept as the integer numerator of a fraction over ThetaDen,     *)
(* so one tick adds omega * timer_period = 1/ThetaDen; a setpoint          *)
(* component is kept as ThetaDen times its value, which makes the          *)
(* interpolation theta*cur + (1-theta)*prev an integer expression.         *)
(* Python's None is the empty tuple; a position is a 3-tuple.              *)
(***************************************************************************)
EXTENDS Integers, Sequences, FiniteSets

VARIABLES
    counter,                \* self.counter, np.uint16
    flight_phase_,          \* self.flight_phase_: 1 = hold, 2 = waypoint mission
    entry_execute_,         \* self.entry_execute_: 1 = run the entry block
    theta,                  \* self.theta, numerator over ThetaDen
    cur_wpt_,               \* self.cur_wpt_
    prev_wpt_,              \* self.prev_wpt_ (may become None)
    wpt_idx_,               \* self.wpt_idx_, 0-based as in the source
    nav_state,              \* self.nav_state
    local_pos_ned_,         \* self.local_pos_ned_ (None until received)
    local_vel_ned_,         \* self.local_vel_ned_ (None until received)
    offboard_ctrl_position, \* self.offboard_ctrl_position
    trajectory_setpoint,    \* self.trajectory_setpoint_x/_y/_z, times ThetaDen
    trajectory_setpoint_yaw,\* self.trajectory_setpoint_yaw
    vehicle_command_out,    \* messages the latest callback published on vehicle_command
    offboard_mode_out,      \* ... on offboard_control_mode
    trajectory_out,         \* ... on trajectory_setpoint
    crashed,                \* an exception left a callback: rclpy.spin raised, the node is gone
    sent_mode,              \* history: DO_SET_MODE commands published so far
    sent_arm,               \* history: ARM commands published so far
    mission_finished,       \* history: "Offboard mission finished" has been printed
    fresh_pos,              \* history: local_pos_ned_ arrived after the latest tick
    dropped_in_reach        \* history: since the tick before the latest one a position
                            \* within the reach radius of the target was delivered and
                            \* overwritten before a tick read it

vars == <<counter, flight_phase_, entry_execute_, theta, cur_wpt_, prev_wpt_,
          wpt_idx_, nav_state, local_pos_ned_, local_vel_ned_,
          offboard_ctrl_position, trajectory_setpoint, trajectory_setpoint_yaw,
          vehicle_command_out, offboard_mode_out, trajectory_out, crashed,
          sent_mode, sent_arm, mission_finished, fresh_pos, dropped_in_reach>>

\* The mission state of the state machine (what a tick outside offboard must not touch).
mission == <<flight_phase_, entry_execute_, wpt_idx_, prev_wpt_, cur_wpt_, theta>>

-----------------------------------------------------------------------------
\* Bounds of the model.

\* Number of waypoints modelled (the source list holds 12).
NumWpts == 3

\* Ticks explored from construction under Spec.
MaxTicks == 22

\* Commands explored under SpecLongRun (two passes of the fire window).
MaxSent == 22

\* Under SpecSettle the telemetry arrives only before this tick.
SettleTicks == 3

\* Ticks explored under SpecSettle: enough for theta to run from 0 to 1
\* (ThetaDen ticks) after the telemetry has settled, and a few more.
MaxSettleTicks == 510

-----------------------------------------------------------------------------
\* Program constants.

\* np.uint16: the counter lives modulo 2^16.
CounterMod == 65536

\* if self.counter >= 10 and self.counter <= 20
FireFirst == 10

FireLast == 20

\* self.omega = 1/10 per second
OmegaDen == 10

\* self.timer_period = 0.02 s, i.e. 50 ticks per second
TimerHz == 50

\* theta advances by omega * timer_period = 1/ThetaDen per tick
ThetaDen == OmegaDen * TimerHz

\* self.nav_wpt_reach_rad_ = 0.1 m, the unit of length of the model
nav_wpt_reach_rad_ == 1

None == << >>

NAVIGATION_STATE_MAX == "MAX"

NAVIGATION_STATE_OFFBOARD == "OFFBOARD"

NAVIGATION_STATE_MANUAL == "MANUAL"

\* self.wpt_set_: the waypoints in the local NED frame, far apart compared
\* with the reach radius.  Python index i is TLA+ index i + 1.
wpt_set_ == [i \in 1..NumWpts |-> <<5 * i, 0, -2>>]

Wpt(i) == wpt_set_[i + 1]

\* The never-written publisher flags of __init__.
offboard_ctrl_velocity == FALSE

offboard_ctrl_acceleration == FALSE

offboard_ctrl_attitude == FALSE

offboard_ctrl_body_rate == FALSE

-----------------------------------------------------------------------------
\* Inputs the telemetry can deliver.

Positions_WithNone ==
    {None, <<0, 0, 0>>} \cup {wpt_set_[i] : i \in 1..NumWpts}

\* On each waypoint, exactly one reach radius away from it, and at the origin.
Positions ==
    {<<0, 0, 0>>}
    \cup {wpt_set_[i] : i \in 1..NumWpts}
    \cup {<<wpt_set_[i][1] + nav_wpt_reach_rad_, wpt_set_[i][2], wpt_set_[i][3]>> :
             i \in 1..NumWpts}

Velocities == {<<0, 0, 0>>}

ReportedNavStates == {NAVIGATION_STATE_MANUAL, NAVIGATION_STATE_OFFBOARD}

-----------------------------------------------------------------------------
\* Pure helpers of cmdloop_callback.

\* The square of dist_xyz (np.sqrt is monotone, so comparisons are made on squares).
Dist2(a, b) ==
    (a[1] - b[1]) * (a[1] - b[1]) + (a[2] - b[2]) * (a[2] - b[2])
    + (a[3] - b[3]) * (a[3] - b[3])

Rad2 == nav_wpt_reach_rad_ * nav_wpt_reach_rad_

Interp_Swapped(th, cur, prev) ==
    <<th * prev[1] + (ThetaDen - th) * cur[1],
      th * prev[2] + (ThetaDen - th) * cur[2],
      th * prev[3] + (ThetaDen - th) * cur[3]>>

\* theta*cur + (1-theta)*prev per component, times ThetaDen.
Interp(th, cur, prev) ==
    <<th * cur[1] + (ThetaDen - th) * prev[1],
      th * cur[2] + (ThetaDen - th) * prev[2],
      th * cur[3] + (ThetaDen - th) * prev[3]>>

Clip_NoUpper(th) == IF th < 0 THEN 0 ELSE th

\* np.clip(theta, 0.0, 1.0)
Clip(th) == IF th < 0 THEN 0 ELSE IF th > ThetaDen THEN ThetaDen ELSE th

Advance_Stuck(th) == Clip(th)

\* self.theta + self.omega*self.timer_period, clipped
Advance(th) == Clip(th + 1)

\* self.counter += 1 on np.uint16
IncCounter(c) == (c + 1) % CounterMod

InFireWindow_NoUpper(c) == c >= FireFirst

\* self.counter >= 10 and self.counter <= 20
InFireWindow(c) == c >= FireFirst /\ c <= FireLast

SetModeCmd == [command |-> "VEHICLE_CMD_DO_SET_MODE", param1 |-> 1, param2 |-> 6]

ArmCmd == [command |-> "VEHICLE_CMD_COMPONENT_ARM_DISARM", param1 |-> 1, param2 |-> 0]

OffboardControlModeMsg_StaleFlag(pos) ==
    [position |-> offboard_ctrl_position,
     velocity |-> offboard_ctrl_velocity,
     acceleration |-> offboard_ctrl_acceleration,
     attitude |-> offboard_ctrl_attitude,
     body_rate |-> offboard_ctrl_body_rate]

\* publish_offboard_control_mode, given the position flag just set
OffboardControlModeMsg(pos) ==
    [position |-> pos,
     velocity |-> offboard_ctrl_velocity,
     acceleration |-> offboard_ctrl_acceleration,
     attitude |-> offboard_ctrl_attitude,
     body_rate |-> offboard_ctrl_body_rate]

\* publish_trajectory_setpoint
TrajectorySetpointMsg(p, yaw) == [position |-> p, yaw |-> yaw]

IsOffboard_Always == TRUE

\* self.nav_state == VehicleStatus.NAVIGATION_STATE_OFFBOARD
IsOffboard == nav_state = NAVIGATION_STATE_OFFBOARD

\* (self.local_pos_ned_ is not None) and (self.local_vel_ned_ is not None)
HaveTelemetry == local_pos_ned_ # None /\ local_vel_ned_ # None

HoldReached_WhenDone(cur) ==
    HaveTelemetry /\ Dist2(cur, local_pos_ned_) < Rad2 /\ theta = ThetaDen

\* phase 1 transition: telemetry known and dist_xyz < reach radius
HoldReached(cur) == HaveTelemetry /\ Dist2(cur, local_pos_ned_) < Rad2

FollowReached_Latched(cur) ==
    Dist2(cur, local_pos_ned_) <= Rad2 \/ (fresh_pos /\ dropped_in_reach)

\* phase 2 transition: dist_xyz <= reach radius
FollowReached(cur) == Dist2(cur, local_pos_ned_) <= Rad2

IsLastWpt_OffByOne(i) == i = NumWpts

\* self.wpt_idx_ == self.wpt_set_.shape[0] - 1
IsLastWpt(i) == i = NumWpts - 1

NextIdx_Skip(i) == i + 2

\* self.wpt_idx_ + 1
NextIdx(i) == i + 1

ReachedPrev_ActualPos == local_pos_ned_

\* self.prev_wpt_ = self.wpt_set_[self.wpt_idx_].flatten()
ReachedPrev == Wpt(wpt_idx_)

FinishedPhase_BackToHold == flight_phase_ - 1

\* the last-waypoint branch only prints: flight_phase_ is not assigned
FinishedPhase == flight_phase_

ReachedTheta_Keep(th) == th

\* self.theta = np.float64(0.0) when a waypoint is reached
ReachedTheta(th) == 0

-----------------------------------------------------------------------------
Init ==
    /\ counter = 0
    /\ flight_phase_ = 1
    /\ entry_execute_ = 1
    /\ theta = 0
    /\ cur_wpt_ = <<0, 0, 0>>
    /\ prev_wpt_ = <<0, 0, 0>>
    /\ wpt_idx_ = 0
    /\ nav_state = NAVIGATION_STATE_MAX
    /\ local_pos_ned_ = None
    /\ local_vel_ned_ = None
    /\ offboard_ctrl_position = FALSE
    /\ trajectory_setpoint = <<0, 0, 0>>
    /\ trajectory_setpoint_yaw = "0"
    /\ vehicle_command_out = << >>
    /\ offboard_mode_out = << >>
    /\ trajectory_out = << >>
    /\ crashed = FALSE
    /\ sent_mode = 0
    /\ sent_arm = 0
    /\ mission_finished = FALSE
    /\ fresh_pos = FALSE
    /\ dropped_in_reach = FALSE

-----------------------------------------------------------------------------
\* The entry block of either phase (lines 200-204 and 227-231): the values of
\* cur_wpt_, prev_wpt_ and theta the "during" block then reads.
EntryCur == IF entry_execute_ = 1 THEN Wpt(0) ELSE cur_wpt_

-----------------------------------------------------------------------------
\* Telemetry callbacks.  They publish nothing.

Quiet ==
    /\ vehicle_command_out' = << >>
    /\ offboard_mode_out' = << >>
    /\ trajectory_out' = << >>

vehicle_status_callback ==
    /\ ~crashed
    /\ \E s \in ReportedNavStates : nav_state' = s
    /\ Quiet
    /\ UNCHANGED <<counter, mission, local_pos_ned_, local_vel_ned_,
                   offboard_ctrl_position, trajectory_setpoint,
                   trajectory_setpoint_yaw, crashed, sent_mode, sent_arm,
                   mission_finished, fresh_pos, dropped_in_reach>>

local_position_callback ==
    /\ ~crashed
    /\ \E p \in Positions, v \in Velocities :
          /\ local_pos_ned_' = p
          /\ local_vel_ned_' = v
    /\ fresh_pos' = TRUE
    /\ dropped_in_reach' =
          /\ fresh_pos
          /\ \/ dropped_in_reach
             \/ local_pos_ned_ # None /\ Dist2(EntryCur, local_pos_ned_) <= Rad2
    /\ Quiet
    /\ UNCHANGED <<counter, mission, nav_state, offboard_ctrl_position,
                   trajectory_setpoint, trajectory_setpoint_yaw, crashed,
                   sent_mode, sent_arm, mission_finished>>

-----------------------------------------------------------------------------
\* The timer tick.

EntryPrev_Keep == prev_wpt_

EntryPrev == IF entry_execute_ = 1 THEN local_pos_ned_ ELSE prev_wpt_

EntryTheta == IF entry_execute_ = 1 THEN 0 ELSE theta

\* prev_wpt_[0] on None raises TypeError: the callback stops after the entry
\* block, nothing more is assigned or published and the node dies.
SubscriptFault ==
    /\ entry_execute_' = 0
    /\ cur_wpt_' = EntryCur
    /\ prev_wpt_' = EntryPrev
    /\ theta' = EntryTheta
    /\ crashed' = TRUE
    /\ trajectory_out' = << >>
    /\ UNCHANGED <<flight_phase_, wpt_idx_, trajectory_setpoint,
                   trajectory_setpoint_yaw, mission_finished>>

\* The setpoint assignments and publish_trajectory_setpoint of the during block.
EmitSetpoint ==
    /\ trajectory_setpoint' = Interp(EntryTheta, EntryCur, EntryPrev)
    /\ trajectory_setpoint_yaw' = "-pi/2"
    /\ trajectory_out' =
          <<TrajectorySetpointMsg(Interp(EntryTheta, EntryCur, EntryPrev), "-pi/2")>>

\* Phase 1 with the navigation state offboard (lines 197-220).
HoldStep ==
    IF EntryPrev = None
    THEN SubscriptFault
    ELSE /\ EmitSetpoint
         /\ theta' = Advance(EntryTheta)
         /\ cur_wpt_' = EntryCur
         /\ prev_wpt_' = EntryPrev
         /\ IF HoldReached(EntryCur)
            THEN flight_phase_' = 2 /\ entry_execute_' = 1
            ELSE flight_phase_' = flight_phase_ /\ entry_execute_' = 0
         /\ UNCHANGED <<wpt_idx_, crashed, mission_finished>>

\* Phase 2 with the navigation state offboard (lines 224-255).
FollowStep ==
    IF ~HaveTelemetry
    THEN /\ entry_execute_' = 0
         /\ cur_wpt_' = EntryCur
         /\ prev_wpt_' = EntryPrev
         /\ theta' = EntryTheta
         /\ trajectory_out' = << >>
         /\ UNCHANGED <<flight_phase_, wpt_idx_, trajectory_setpoint,
                        trajectory_setpoint_yaw, crashed, mission_finished>>
    ELSE IF EntryPrev = None
    THEN SubscriptFault
    ELSE /\ EmitSetpoint
         /\ entry_execute_' = 0
         /\ IF FollowReached(EntryCur)
            THEN /\ theta' = ReachedTheta(Advance(EntryTheta))
                 /\ prev_wpt_' = ReachedPrev
                 /\ IF IsLastWpt(wpt_idx_)
                    THEN /\ mission_finished' = TRUE
                         /\ flight_phase_' = FinishedPhase
                         /\ UNCHANGED <<wpt_idx_, crashed>>
                         /\ cur_wpt_' = EntryCur
                    ELSE /\ wpt_idx_' = NextIdx(wpt_idx_)
                         /\ UNCHANGED <<flight_phase_, mission_finished>>
                         \* wpt_set_[idx] past the end raises IndexError
                         /\ IF NextIdx(wpt_idx_) < NumWpts
                            THEN cur_wpt_' = Wpt(NextIdx(wpt_idx_)) /\ UNCHANGED crashed
                            ELSE cur_wpt_' = EntryCur /\ crashed' = TRUE
            ELSE /\ theta' = Advance(EntryTheta)
                 /\ cur_wpt_' = EntryCur
                 /\ prev_wpt_' = EntryPrev
                 /\ UNCHANGED <<flight_phase_, wpt_idx_, crashed, mission_finished>>

NoStep_ResetsTheta ==
    /\ trajectory_out' = << >>
    /\ theta' = 0
    /\ UNCHANGED <<flight_phase_, entry_execute_, wpt_idx_, prev_wpt_, cur_wpt_,
                   trajectory_setpoint, trajectory_setpoint_yaw, crashed,
                   mission_finished>>

\* Neither branch of the if/elif runs.
NoStep ==
    /\ trajectory_out' = << >>
    /\ UNCHANGED <<mission, trajectory_setpoint, trajectory_setpoint_yaw,
                   crashed, mission_finished>>

cmdloop_callback ==
    /\ ~crashed
    /\ counter' = IncCounter(counter)
    /\ IF InFireWindow(IncCounter(counter))
       THEN /\ vehicle_command_out' = <<SetModeCmd, ArmCmd>>
            /\ sent_mode' = sent_mode + 1
            /\ sent_arm' = sent_arm + 1
       ELSE /\ vehicle_command_out' = << >>
            /\ UNCHANGED <<sent_mode, sent_arm>>
    /\ offboard_ctrl_position' = TRUE
    /\ offboard_mode_out' = <<OffboardControlModeMsg(TRUE)>>
    /\ IF flight_phase_ = 1 /\ IsOffboard THEN HoldStep
       ELSE IF flight_phase_ = 2 /\ IsOffboard THEN FollowStep
       ELSE NoStep
    /\ fresh_pos' = FALSE
    /\ dropped_in_reach' = (fresh_pos /\ dropped_in_reach)
    /\ UNCHANGED <<nav_state, local_pos_ned_, local_vel_ned_>>

-----------------------------------------------------------------------------
\* Spec: every interleaving of the three callbacks for the first MaxTicks ticks.

Tick == counter < MaxTicks /\ cmdloop_callback

Next ==
    \/ vehicle_status_callback
    \/ local_position_callback
    \/ Tick

Spec == Init /\ [][Next]_vars

\* SpecLongRun: the timer alone (no telemetry ever arrives), long enough for
\* the 16-bit counter to wrap and pass the fire window a second time.

LongTick == sent_mode < MaxSent /\ cmdloop_callback

SpecLongRun == Init /\ [][LongTick]_vars

\* SpecSettle: the telemetry changes during the first SettleTicks ticks and is
\* silent afterwards, while the timer keeps firing (the executor runs a ready
\* timer, hence the weak fairness of the tick).

SettleStatus == counter < SettleTicks /\ vehicle_status_callback

SettlePosition == counter < SettleTicks /\ local_position_callback

SettleTick == counter < MaxSettleTicks /\ cmdloop_callback

NextSettle ==
    \/ SettleStatus
    \/ SettlePosition
    \/ SettleTick

SpecSettle == Init /\ [][NextSettle]_vars /\ WF_vars(SettleTick)

-----------------------------------------------------------------------------
\* Properties.

\* The state right after a timer tick: every tick publishes the
\* offboard-control-mode message, the telemetry callbacks publish nothing.
Ticked == offboard_mode_out # << >>

WindowTicks == FireLast - FireFirst + 1

C2_NoTelemetryTickIsSafe ==
    (Ticked /\ local_pos_ned_ = None) =>
        (~crashed /\ Len(trajectory_out) = 1 /\ flight_phase_ = 1)

\* The fault C2 excludes: offboard reported before any position, and the tick
\* died on prev_wpt_[0] with prev_wpt_ = None.
C2_FaultState ==
    /\ crashed
    /\ nav_state = NAVIGATION_STATE_OFFBOARD
    /\ local_pos_ned_ = None
    /\ prev_wpt_ = None
    /\ trajectory_out = << >>

C4_NoRefireAfterWindow ==
    [][(sent_mode > 0 /\ ~(counter >= FireFirst /\ counter <= FireLast))
          => (sent_mode' = sent_mode /\ sent_arm' = sent_arm)]_vars

\* A step of the timer (the telemetry callbacks leave the counter alone).
TickStep == counter' # counter

\* A point of the model, in the units of trajectory_setpoint.
Scaled(p) == <<ThetaDen * p[1], ThetaDen * p[2], ThetaDen * p[3]>>

LastIdx == NumWpts - 1

\* C5: a tick taken while the navigation state is not offboard leaves the
\* mission state (phase, entry flag, index, both targets, theta) unchanged,
\* and so do the telemetry callbacks: across an excursion out of offboard
\* theta and the targets keep the values of the last offboard tick.
C5_FrozenOutsideOffboard ==
    [][(nav_state # NAVIGATION_STATE_OFFBOARD \/ ~TickStep) => UNCHANGED mission]_vars

\* A tick outside offboard in the middle of a waypoint segment.
C5_Witness ==
    /\ Ticked
    /\ nav_state = NAVIGATION_STATE_MANUAL
    /\ flight_phase_ = 2
    /\ wpt_idx_ >= 1
    /\ theta > 0
    /\ prev_wpt_ # cur_wpt_

\* C6: the waypoint index never decreases and moves by at most one per step;
\* it moves only on an offboard tick of phase 2 that sees the vehicle within
\* the reach radius of the waypoint being left, and the target then becomes
\* the next waypoint, so every index 0..N-1 is taken in order, once.
C6_IndexStepsByOne ==
    [][\/ wpt_idx_' = wpt_idx_
       \/ /\ wpt_idx_' = wpt_idx_ + 1
          /\ wpt_idx_' <= LastIdx
          /\ TickStep
          /\ flight_phase_ = 2
          /\ nav_state = NAVIGATION_STATE_OFFBOARD
          /\ local_pos_ned_ # None
          /\ Dist2(Wpt(wpt_idx_), local_pos_ned_) <= Rad2
          /\ cur_wpt_ = Wpt(wpt_idx_) \/ entry_execute_ = 1
          /\ cur_wpt_' = Wpt(wpt_idx_')]_vars

\* The index has walked up to the last waypoint, which is not yet reached.
C6_Witness ==
    /\ Ticked
    /\ wpt_idx_ = LastIdx
    /\ cur_wpt_ = Wpt(LastIdx)
    /\ prev_wpt_ = Wpt(LastIdx - 1)
    /\ ~mission_finished

\* C7: once a tick has found the vehicle within the reach radius of the last
\* waypoint with the index at the last waypoint (the mission is finished),
\* the index never changes again and every setpoint published by a later tick
\* is the last waypoint, whatever the later positions, modes and theta.
C7_FrozenAtLastWaypoint ==
    [][mission_finished =>
          /\ wpt_idx_ = LastIdx
          /\ wpt_idx_' = wpt_idx_
          /\ trajectory_out' # << >> =>
                trajectory_out'[1].position = Scaled(Wpt(LastIdx))]_vars

\* A setpoint published after the mission finished, with theta above 0.
C7_Witness ==
    /\ mission_finished
    /\ trajectory_out # << >>
    /\ theta >= 2
    /\ Dist2(Wpt(LastIdx), local_pos_ned_) > Rad2

\* C8: the waypoint index is always a valid index of the waypoint list.
C8_IndexInRange == wpt_idx_ \in 0..(NumWpts - 1)

\* The tick that reached the last waypoint left the index where it was.
C8_Witness ==
    /\ Ticked
    /\ mission_finished
    /\ wpt_idx_ = LastIdx
    /\ theta = 0
    /\ trajectory_out # << >>

\* The entry block of a phase runs on this step.
EntryEvent == TickStep /\ IsOffboard /\ entry_execute_ = 1

\* The phase-2 reach test passes on this step.
ReachEvent ==
    /\ TickStep
    /\ IsOffboard
    /\ flight_phase_ = 2
    /\ HaveTelemetry
    /\ Dist2(EntryCur, local_pos_ned_) <= Rad2

\* C9: theta decreases only on a step that runs a phase entry or reaches a
\* waypoint; a reached waypoint leaves theta at 0, and a phase entry sets it
\* to 0 before the tick's single advance.
C9_ThetaMonotoneBetweenEvents ==
    [][/\ theta' < theta => (EntryEvent \/ ReachEvent)
       /\ ReachEvent => theta' = 0
       /\ (EntryEvent /\ ~ReachEvent) => theta' = (IF crashed' THEN 0 ELSE 1)]_vars

\* A waypoint reached in mid-interpolation: the tick published a point
\* strictly between two targets and reset theta.
C9_Witness ==
    /\ Ticked
    /\ flight_phase_ = 2
    /\ wpt_idx_ = LastIdx
    /\ ~mission_finished
    /\ theta = 0
    /\ trajectory_out # << >>
    /\ trajectory_setpoint \notin {Scaled(p) : p \in Positions}

\* C10: the phase starts as hold (1); its only change is hold to waypoint
\* mission (1 to 2), so phase 2 is kept for the rest of the run, also after
\* the last waypoint has been reached.
C10_PhaseOnlyAdvances ==
    /\ flight_phase_ = 1
    /\ [][\/ flight_phase_' = flight_phase_
          \/ flight_phase_ = 1 /\ flight_phase_' = 2]_vars

\* Phase 2 kept after the mission finished and the mode left offboard.
C10_Witness ==
    /\ flight_phase_ = 2
    /\ mission_finished
    /\ nav_state = NAVIGATION_STATE_MANUAL
    /\ Ticked

\* C11: every tick, whatever the state, publishes exactly one
\* offboard-control-mode message with position true and velocity,
\* acceleration, attitude and body_rate false.
C11_PositionModeEveryTick ==
    [][TickStep =>
          offboard_mode_out' =
              <<[position |-> TRUE, velocity |-> FALSE, acceleration |-> FALSE,
                 attitude |-> FALSE, body_rate |-> FALSE]>>]_vars

\* The very first tick (the flag was still False in __init__), and a tick
\* that then died in the state machine: both published the message.
C11_Witness ==
    /\ counter = 1
    /\ crashed
    /\ Len(offboard_mode_out) = 1
    /\ offboard_mode_out[1].position

\* C12: theta always lies in [0, 1] (0..ThetaDen in the model's units).
C12_ThetaInUnitInterval == theta \in 0..ThetaDen

\* theta sits at 1 after a tick that already started from 1: the advance
\* was clipped.
C12_Witness ==
    /\ Ticked
    /\ theta = ThetaDen
    /\ trajectory_out # << >>
    /\ trajectory_out[1].position = Scaled(cur_wpt_)
    /\ cur_wpt_ # prev_wpt_

\* C13: the setpoint a tick publishes is, per component,
\* previous_target*(1-theta) + current_target*theta for the targets and theta
\* the tick interpolates with, in both phases: it lies between the two
\* targets, is previous_target at theta = 0 and current_target at theta = 1.
C13_SetpointIsLinearInterpolation ==
    [][(TickStep /\ trajectory_out' # << >>) =>
          LET sp == trajectory_out'[1].position
              lo(i) == ThetaDen * EntryPrev[i]
              hi(i) == ThetaDen * EntryCur[i]
          IN /\ Len(trajectory_out') = 1
             /\ trajectory_setpoint' = sp
             /\ \A i \in 1..3 :
                   /\ sp[i] = lo(i) + EntryTheta * (EntryCur[i] - EntryPrev[i])
                   /\ \/ lo(i) <= sp[i] /\ sp[i] <= hi(i)
                      \/ hi(i) <= sp[i] /\ sp[i] <= lo(i)
             /\ EntryTheta = 0 => sp = Scaled(EntryPrev)
             /\ EntryTheta = ThetaDen => sp = Scaled(EntryCur)]_vars

\* Phase 2, half way: the published point is the midpoint of two distinct
\* targets.
C13_Witness ==
    /\ Ticked
    /\ flight_phase_ = 2
    /\ 2 * (theta - 1) = ThetaDen
    /\ prev_wpt_ # cur_wpt_
    /\ trajectory_out # << >>
    /\ \A i \in 1..3 :
          2 * trajectory_out[1].position[i] = ThetaDen * (prev_wpt_[i] + cur_wpt_[i])

\* C14 as stated: in phase 1, offboard, telemetry known, a tick with the
\* distance to the target at most the reach radius (the radius itself
\* included) switches to phase 2 with the entry flag set and the index still
\* 0; a tick with a larger distance stays in phase 1.
C14_HoldSwitchesAtOrWithinRadius ==
    [][(/\ TickStep
        /\ flight_phase_ = 1
        /\ nav_state = NAVIGATION_STATE_OFFBOARD
        /\ local_pos_ned_ # None
        /\ local_vel_ned_ # None) =>
          IF Dist2(EntryCur, local_pos_ned_) <= Rad2
          THEN flight_phase_' = 2 /\ entry_execute_' = 1 /\ wpt_idx_' = 0
          ELSE flight_phase_' = 1]_vars

\* C15: in phase 2 the target is the waypoint at the index; a tick that finds
\* the vehicle within the reach radius sets previous_target to the target it
\* had (not to the vehicle position) and theta to 0, and unless the index is
\* the last one it adds one to the index and takes that waypoint as target.
C15_ReachKeepsTargetAsPrevious ==
    [][/\ flight_phase_' = 2 => cur_wpt_' = Wpt(wpt_idx_')
       /\ ReachEvent =>
             /\ prev_wpt_' = cur_wpt_
             /\ theta' = 0
             /\ IF wpt_idx_ = LastIdx
                THEN wpt_idx_' = wpt_idx_ /\ cur_wpt_' = cur_wpt_
                ELSE wpt_idx_' = wpt_idx_ + 1 /\ cur_wpt_' = Wpt(wpt_idx_ + 1)]_vars

\* A waypoint reached from the edge of its reach radius: previous_target is
\* the waypoint, the vehicle is elsewhere.
C15_Witness ==
    /\ Ticked
    /\ flight_phase_ = 2
    /\ wpt_idx_ = 1
    /\ theta = 0
    /\ prev_wpt_ = Wpt(0)
    /\ cur_wpt_ = Wpt(1)
    /\ Dist2(prev_wpt_, local_pos_ned_) = Rad2

\* C16: the entry block runs on the first offboard tick of a phase: the tick
\* interpolates from the vehicle position (theta 0) towards the waypoint at
\* the index and clears the flag; the flag is set only by the phase 1 to 2
\* switch, and with the flag clear the targets change only when a waypoint is
\* reached.
C16_EntryRunsOncePerPhase ==
    [][/\ EntryEvent =>
             /\ trajectory_out' # << >> =>
                   /\ local_pos_ned_ # None
                   /\ trajectory_out'[1].position = Scaled(local_pos_ned_)
             /\ ~ReachEvent =>
                   /\ prev_wpt_' = local_pos_ned_
                   /\ cur_wpt_' = Wpt(wpt_idx_)
                   /\ theta' <= 1
             /\ entry_execute_' = 1 <=> (flight_phase_ = 1 /\ flight_phase_' = 2)
       /\ (entry_execute_' = 1 /\ ~(entry_execute_ = 1 /\ ~EntryEvent)) =>
             (flight_phase_ = 1 /\ flight_phase_' = 2)
       /\ (entry_execute_ = 0 /\ ~ReachEvent) => UNCHANGED <<prev_wpt_, cur_wpt_>>]_vars

\* The entry of phase 2 has just run with the vehicle away from the target.
C16_Witness ==
    /\ Ticked
    /\ flight_phase_ = 2
    /\ entry_execute_ = 0
    /\ wpt_idx_ = 0
    /\ theta = 1
    /\ prev_wpt_ = local_pos_ned_
    /\ cur_wpt_ = Wpt(0)
    /\ Dist2(cur_wpt_, local_pos_ned_) > Rad2

\* C17: an offboard tick that sees the vehicle inside the reach radius of the
\* target takes the transition whatever theta is: phase 1 switches to
\* phase 2, phase 2 resets theta and moves on to the next waypoint.
C17_ReachIgnoresTheta ==
    [][(/\ TickStep
        /\ nav_state = NAVIGATION_STATE_OFFBOARD
        /\ local_pos_ned_ # None
        /\ Dist2(EntryCur, local_pos_ned_) < Rad2) =>
          /\ flight_phase_ = 1 => (flight_phase_' = 2 /\ entry_execute_' = 1)
          /\ flight_phase_ = 2 =>
                /\ theta' = 0
                /\ prev_wpt_' = Wpt(wpt_idx_)
                /\ wpt_idx_ < LastIdx => wpt_idx_' = wpt_idx_ + 1]_vars

\* Phase 1 left in mid-interpolation: theta was below 1 and the published
\* point was not the target.
C17_Witness ==
    /\ Ticked
    /\ flight_phase_ = 2
    /\ entry_execute_ = 1
    /\ theta >= 2
    /\ theta < ThetaDen
    /\ trajectory_setpoint # Scaled(cur_wpt_)

\* C18: a tick decides on the position stored when it runs: with that
\* position outside the reach radius (or none stored) neither the phase nor
\* the index changes, whatever was delivered and overwritten before; the
\* telemetry callbacks themselves change neither.
C18_OnlyLatestPositionCounts ==
    [][/\ (TickStep /\ (local_pos_ned_ = None \/ Dist2(EntryCur, local_pos_ned_) > Rad2))
             => (flight_phase_' = flight_phase_ /\ wpt_idx_' = wpt_idx_)
       /\ ~TickStep => (flight_phase_' = flight_phase_ /\ wpt_idx_' = wpt_idx_)]_vars

\* An offboard tick of phase 2 that changed nothing although a position
\* within the reach radius had been delivered, and overwritten, since the
\* tick before.
C18_Witness ==
    /\ Ticked
    /\ dropped_in_reach
    /\ nav_state = NAVIGATION_STATE_OFFBOARD
    /\ flight_phase_ = 2
    /\ wpt_idx_ = 1
    /\ cur_wpt_ = Wpt(1)
    /\ theta >= 2
    /\ Dist2(cur_wpt_, local_pos_ned_) > Rad2

\* C19: a received position and velocity are never reset to None, and in
\* phase 2 both are known and previous_target is a position.
C19_FollowHasTelemetry ==
    [][/\ local_pos_ned_ # None => local_pos_ned_' # None
       /\ local_vel_ned_ # None => local_vel_ned_' # None
       /\ flight_phase_' = 2 =>
             (local_pos_ned_' # None /\ local_vel_ned_' # None /\ prev_wpt_' # None)]_vars

\* Phase 2 has just been entered from the first offboard tick.
C19_Witness ==
    /\ Ticked
    /\ flight_phase_ = 2
    /\ entry_execute_ = 1
    /\ theta = 1
    /\ local_pos_ned_ # None
    /\ prev_wpt_ = local_pos_ned_

\* Offboard, telemetry known, vehicle outside the reach radius of the target.
Stable ==
    /\ nav_state = NAVIGATION_STATE_OFFBOARD
    /\ local_pos_ned_ # None
    /\ local_vel_ned_ # None
    /\ Dist2(EntryCur, local_pos_ned_) > Rad2

\* C20: if from some point on the mode stays offboard with telemetry known
\* and the vehicle outside the reach radius of the target, then (the timer
\* keeps firing) theta reaches 1 and stays 1, and the setpoints published
\* from then on are the target.
C20_ThetaSettlesAtOne ==
    (<>[]Stable) =>
        <>[](/\ theta = ThetaDen
             /\ trajectory_out # << >>
             /\ trajectory_out[1].position = Scaled(cur_wpt_))

\* Phase 1 with the vehicle kept away from the hold point: theta has run up
\* to 1 and the hold point itself is published.
C20_Witness ==
    /\ Ticked
    /\ Stable
    /\ flight_phase_ = 1
    /\ theta = ThetaDen
    /\ trajectory_out[1].position = Scaled(cur_wpt_)

====
